---------------------------- MODULE Spec2Model ----------------------------
(***************************************************************************)
(* pycanrs: a Rust wrapper over python-can.  PyCanInterface (src/lib.rs)   *)
(* opens a bus and a notifier in new(), offers blocking recv()/send() and  *)
(* register_rx_callback(), which wraps two Rust closures in shims and adds *)
(* them as a listener of the notifier.  PyCanMessage (src/message.rs) is   *)
(* the Rust-side frame, extracted field by field from python-can's         *)
(* Message.                                                                *)
(*                                                                         *)
(* python-can itself (can.Bus, can.Message, can.Notifier) is not part of   *)
(* the repository.  Its dispatch thread is modelled from the dispatch      *)
(* semantics the specification states (section 4.3) and is marked as such. *)
(***************************************************************************)
EXTENDS Integers, Sequences, FiniteSets, TLC

(* ------------------------------ bounds --------------------------------- *)

\* Number of calls of the interface (recv, send, register_rx_callback) and of
\* events other nodes put on the transport, in total.
MaxOps == 3

\* The calls and transport events after new() where new() is given each
\* variant.
MaxOpsAnyKind == 2

\* The calls and transport events after new() where send() is given each id
\* and each payload length.
MaxOpsRoundTrip == 2

\* Number of register_rx_callback calls.
MaxListeners == 2
\* Number of threads that call send(), one call each.
NumSenders == 2

(* ------------------------- integer widths ------------------------------ *)

\* The largest u8 (data bytes, dlc).
U8Max == 255
\* The largest integer TLC represents; every one of them is below 2^32, so a
\* number fits u32 when it is not negative.
IntMax == 2147483647
FitsU32(n) == n >= 0
FitsU8(n) == n \in 0..U8Max

\* The largest identifier a CAN frame carries: 29 bits (2^29 - 1).
MaxId == 536870911
\* The largest identifier of the base format: 11 bits.
MaxBaseId == 2047
\* The bytes a CAN frame has room for.
MaxData == 8

(* ------------------------- PyCanBusType -------------------------------- *)

\* The tagged union, as one record shape: the fields a variant does not have
\* are 0 or "".
BusType(variant, bitrate, usb_channel, usb_bus, usb_address, serial_port, channel, host, port) ==
    [variant |-> variant, bitrate |-> bitrate, usb_channel |-> usb_channel,
     usb_bus |-> usb_bus, usb_address |-> usb_address,
     serial_port |-> serial_port, channel |-> channel, host |-> host,
     port |-> port]

Gsusb(bitrate, usb_channel, usb_bus, usb_address) ==
    BusType("Gsusb", bitrate, usb_channel, usb_bus, usb_address, "", "", "", 0)

Slcan(bitrate, serial_port) ==
    BusType("Slcan", bitrate, "", 0, 0, serial_port, "", "", 0)

Socketcan(channel) ==
    BusType("Socketcan", 0, "", 0, 0, "", channel, "", 0)

Socketcand(host, channel, port) ==
    BusType("Socketcand", 0, "", 0, 0, "", channel, host, port)

\* The value of PyCanInterface.bustype when no PyCanInterface exists.
NoBusType == BusType("", 0, "", 0, 0, "", "", "", 0)

\* The configurations the callers construct.
Kinds ==
    { Gsusb(500000, "can0", 1, 2),
      Slcan(115200, "/dev/ttyUSB0"),
      Socketcan("vcan0"),
      Socketcand("localhost", "can0", 29536) }

\* The interface opened where many calls follow new(): nothing after new()
\* reads the variant.
OpenedKinds == {Socketcan("vcan0")}

\* The keyword arguments new() passes to can.Bus for each variant: keys is the
\* set of keywords passed, the other fields their values (0 or "" when the
\* keyword is not passed).
BusKwargs(kind) ==
    CASE kind.variant = "Gsusb" ->
           [keys |-> {"bustype", "bitrate", "channel", "bus", "address"},
            bustype |-> "gs_usb", bitrate |-> kind.bitrate,
            channel |-> kind.usb_channel, bus |-> kind.usb_bus,
            address |-> kind.usb_address, host |-> "", port |-> 0]
      [] kind.variant = "Slcan" ->
           [keys |-> {"bustype", "channel", "bitrate"},
            bustype |-> "slcan", bitrate |-> kind.bitrate,
            channel |-> kind.serial_port, bus |-> 0,
            address |-> 0, host |-> "", port |-> 0]
      [] kind.variant = "Socketcan" ->
           [keys |-> {"bustype", "channel"},
            bustype |-> "socketcan", bitrate |-> 0,
            channel |-> kind.channel, bus |-> 0,
            address |-> 0, host |-> "", port |-> 0]
      [] OTHER ->
           [keys |-> {"bustype", "host", "channel", "port"},
            bustype |-> "socketcand", bitrate |-> 0,
            channel |-> kind.channel, bus |-> 0,
            address |-> 0, host |-> kind.host, port |-> kind.port]

\* The keyword arguments of a bus that was never opened.
NoKwargs ==
    [keys |-> {}, bustype |-> "", bitrate |-> 0, channel |-> "", bus |-> 0,
     address |-> 0, host |-> "", port |-> 0]

(* --------------------------- messages ---------------------------------- *)

\* Option<T> is a sequence of length 0 (None) or 1 (Some(v)).
None == << >>
Some(v) == << v >>

\* python-can's Message, the fields the wrapper reads or writes.
PyMessage(arbitration_id, data, dlc, is_error_frame, timestamp) ==
    [arbitration_id |-> arbitration_id, data |-> data, dlc |-> dlc,
     is_error_frame |-> is_error_frame, timestamp |-> timestamp]

\* #[derive(FromPyObject)]: whether every field of the Python object converts
\* to the Rust field's type (u32, Vec<u8>, u8, bool, f64).
Extractable(m) ==
    /\ FitsU32(m.arbitration_id)
    /\ \A i \in 1..Len(m.data) : FitsU8(m.data[i])
    /\ FitsU8(m.dlc)

\* #[derive(FromPyObject)] for PyCanMessage: each field by attribute name;
\* a present attribute of an Option field becomes Some.
Extract(m) ==
    [arbitration_id |-> m.arbitration_id,
     data |-> Some(m.data),
     dlc |-> Some(m.dlc),
     is_error_frame |-> m.is_error_frame,
     timestamp |-> Some(m.timestamp)]

\* The PyCanMessage struct.  data, dlc and timestamp are Options; an f64
\* timestamp is counted in halves of a second (3 is 1.5).
PyCanMessage(arbitration_id, data, dlc, is_error_frame, timestamp) ==
    [arbitration_id |-> arbitration_id, data |-> data, dlc |-> dlc,
     is_error_frame |-> is_error_frame, timestamp |-> timestamp]

(* ------------------------------ Display -------------------------------- *)

HexDigits == <<"0", "1", "2", "3", "4", "5", "6", "7", "8", "9", "A", "B", "C", "D", "E", "F">>

\* {:X} of an unsigned integer: upper-case hexadecimal, no padding.
RECURSIVE UpperHex(_)
UpperHex(n) ==
    IF n < 16 THEN HexDigits[n + 1]
    ELSE UpperHex(n \div 16) \o HexDigits[(n % 16) + 1]

\* {:03X}: upper-case hexadecimal, padded with zeros to three digits.
UpperHex03(n) ==
    IF n < 16 THEN "00" \o UpperHex(n)
    ELSE IF n < 256 THEN "0" \o UpperHex(n)
    ELSE UpperHex(n)

\* {:?} of an f64 (the X flag does not apply to floats): the shortest
\* decimal that reads back, with ".0" for a whole number.
DebugF64(halves) ==
    LET abs == IF halves < 0 THEN -halves ELSE halves
    IN  (IF halves < 0 THEN "-" ELSE "")
            \o ToString(abs \div 2) \o (IF abs % 2 = 0 THEN ".0" ELSE ".5")

\* {:X?} of a Vec<u8>: the bytes in upper-case hexadecimal, in a list.
RECURSIVE DebugElems(_)
DebugElems(v) ==
    IF Len(v) = 0 THEN ""
    ELSE IF Len(v) = 1 THEN UpperHex(v[1])
    ELSE UpperHex(v[1]) \o ", " \o DebugElems(Tail(v))

DebugVec(v) == "[" \o DebugElems(v) \o "]"

\* format!("{v:X?}") for the three types option_to_str is used with.
DebugUpperHex(v, ty) ==
    CASE ty = "f64" -> DebugF64(v)
      [] ty = "u8" -> UpperHex(v)
      [] ty = "Vec<u8>" -> DebugVec(v)

\* An option_to_str that formats the Option, not what is in it.
OptionToStrWhole(o, ty) ==
    IF o # None THEN "Some(" \o DebugUpperHex(o[1], ty) \o ")" ELSE "None"

\* option_to_str::<T>: the value in the Option formatted with {:X?}, or None.
OptionToStr(o, ty) ==
    IF o # None THEN DebugUpperHex(o[1], ty) ELSE "None"

\* A Display that has no case for error frames.
DisplayPayloadAlways(m) ==
    "PyCanMessage: @" \o OptionToStr(m.timestamp, "f64")
        \o " | id=0x" \o UpperHex03(m.arbitration_id)
        \o " | dlc=" \o OptionToStr(m.dlc, "u8")
        \o " | data=" \o OptionToStr(m.data, "Vec<u8>")

\* impl Display for PyCanMessage.
Display(m) ==
    LET data == OptionToStr(m.data, "Vec<u8>")
        dlc == OptionToStr(m.dlc, "u8")
        timestamp == OptionToStr(m.timestamp, "f64")
    IN  IF m.is_error_frame
        THEN "PyCanMessage: @" \o timestamp \o " ERROR FRAME"
        ELSE "PyCanMessage: @" \o timestamp \o " | id=0x"
                 \o UpperHex03(m.arbitration_id) \o " | dlc=" \o dlc
                 \o " | data=" \o data

\* A send() that always declares a full frame of eight bytes.
SendMessageDlc8(id, data) == PyMessage(id, data, 8, FALSE, 0)

\* can.Message(arbitration_id=id, data=data, dlc=data.len()) as send() builds
\* it: not an error frame, timestamp 0 until a transport stamps it.
SendMessage(id, data) == PyMessage(id, data, Len(data), FALSE, 0)

\* A send() that keeps the message it builds in one place shared by all calls.
MsgSlotShared(t) == 1

\* The message a call of send() hands to iface.send: the one it built itself
\* (a local of the call).
MsgSlot(t) == t

\* PyErr::from_value(exc): the PyErr holds the exception object it is given.
PyErrFromValue(exc) == [value |-> exc]

\* The exception the transport raises for its n-th event.
TransportError(n) == [type |-> "CanOperationError", seq |-> n]

(* --------------------------- the shims --------------------------------- *)

\* rx_shim panics (expect) unless its arguments are one extractable message.
RxShimPanics(args) == ~(Len(args) = 1 /\ Extractable(args[1]))

\* A shim that hands on_rx the newest message before the ones it was given
\* earlier.
RxShimNewestFirst(log, args) ==
    IF RxShimPanics(args) THEN log ELSE << Extract(args[1]) >> \o log

\* rx_shim: extract the PyCanMessage from the one argument and call on_rx
\* with it.  log is the sequence of messages on_rx has been called with.
RxShim(log, args) ==
    IF RxShimPanics(args) THEN log ELSE Append(log, Extract(args[1]))

\* A shim that drops the error without calling on_error.
ErrorShimSilent(log, args) == log

\* error_shim: build a PyErr from the first argument and call on_error with
\* it.  log is the sequence of errors on_error has been called with.
ErrorShim(log, args) ==
    IF Len(args) = 0 THEN log ELSE Append(log, PyErrFromValue(args[1]))

\* A closure constructor that calls the closure once, with an empty message,
\* to try it out.
NewClosureTried(log) == Append(log, Extract(PyMessage(0, << >>, 0, FALSE, 0)))

\* PyCFunction::new_closure(py, None, None, closure): the shim is built
\* around the caller's callback, which is not called.  log is the sequence
\* of calls the callback has had.
NewClosure(log) == log

\* A shim that hands the callback to a thread of its own and returns at
\* once.
ShimCallDetached(pc) == pc

\* The shim calls the callback inline, on_rx(&msg) or on_error(&err): the
\* thread that called the shim is in the callback until it returns.
ShimCall(pc) == IF pc = "dispatch" THEN "rxcall" ELSE "errcall"

\* The shim returns None to the loop that called it.
ShimReturn(pc) == IF pc = "rxcall" THEN "dispatch" ELSE "onerror"

\* A registration that makes its listener the notifier's only one.
AddListenerAsOnly(ls, l) == << l >>

\* notifier.add_listener(listener): the listener joins the notifier's list.
AddListener(ls, l) == Append(ls, l)

(* ------------------------------ state ---------------------------------- *)

VARIABLES
    newCall,        \* the argument of new() and what python-can let succeed
    newResult,      \* what new() returned: "NotCalled", "Ok" or the error kind
    bustype,        \* PyCanInterface.bustype (NoBusType: no interface)
    busKwargs,      \* the keyword arguments the bus was opened with
    pyCalls,        \* the python-can calls made so far, in order
    alive,          \* the process has not exited
    dropped,        \* the PyCanInterface value has been dropped
    rxq,            \* transport: events waiting to be read from the bus
    clock,          \* transport: events put on the bus so far (the timestamps)
    arrivals,       \* events that came from other nodes so far
    txlog,          \* transport: frames written by iface.send, with the caller
    listeners,      \* notifier.listeners
    onErrorExits,   \* listener -> its on_error ends the process
    regCalls,       \* register_rx_callback calls so far
    regPc,          \* the register_rx_callback call in progress: "idle",
                    \* "added", "failed" (add_listener done, not returned),
                    \* "panicked"
    regResult,      \* listener -> what its register_rx_callback returned
    regAt,          \* listener -> events the loop had pulled when its
                    \* register_rx_callback returned
    regFrom,        \* listener -> events the loop had pulled when its
                    \* register_rx_callback was called
    nPc,            \* dispatch thread: "none", "poll", "dispatch", "rxcall",
                    \* "onerror", "errcall", "dead"
    running,        \* the listeners with a callback that has not returned
    nCur,           \* dispatch thread: the event being dispatched
    nIdx,           \* dispatch thread: position in notifier.listeners
    pulled,         \* the events the dispatch thread pulled, in order
    nDone,          \* how many of them it has finished dispatching
    stolen,         \* the dispatch thread pulled a frame while recv() was blocked
    rxLog,          \* listener -> messages its on_rx was called with
    errLog,         \* listener -> errors its on_error was called with
    recvPc,         \* polling thread: "idle", "blocked", "panicked"
    recvCalls,      \* recv() calls so far
    recvResult,     \* what the last recv() returned (None before)
    recvEcho,       \* the send() call the last recv() result echoes (0: none)
    sendPc,         \* sender -> "idle", "built", "done", "panicked"
    sendArgs,       \* sender -> the (id, data) of its send() call
    sendMsg,        \* slot -> the can.Message built by send()
    dispMsg,        \* the PyCanMessage being formatted
    dispOut         \* what formatting it gave (None before)

ifaceVars == <<newCall, newResult, bustype, busKwargs, pyCalls, dropped>>
busVars == <<rxq, clock, arrivals, txlog>>
regVars ==
    <<listeners, onErrorExits, regCalls, regPc, regResult, regAt, regFrom>>
notifierVars == <<nPc, running, nCur, nIdx, pulled, nDone, stolen>>
logVars == <<rxLog, errLog>>
recvVars == <<recvPc, recvCalls, recvResult, recvEcho>>
sendVars == <<sendPc, sendArgs, sendMsg>>
dispVars == <<dispMsg, dispOut>>

vars == <<newCall, newResult, bustype, busKwargs, pyCalls, alive, dropped, rxq,
          clock,
          arrivals, txlog, listeners, onErrorExits, regCalls, regResult, regAt,
          regPc, regFrom,
          nPc, running, nCur, nIdx, pulled, nDone, stolen, rxLog, errLog,
          recvPc,
          recvCalls, recvResult, recvEcho, sendPc, sendArgs, sendMsg, dispMsg,
          dispOut>>

Listeners == 1..MaxListeners
Senders == 1..NumSenders

\* An event on the transport: a message, or a failure the next read raises.
\* echoOf names the send() call a message echoes (0: it is from another node).
MsgEvent(m, n, by) == [kind |-> "msg", msg |-> m, seq |-> n, echoOf |-> by]
ExcEvent(n) ==
    [kind |-> "exc", msg |-> PyMessage(0, << >>, 0, FALSE, 0), seq |-> n,
     echoOf |-> 0]
NoEvent == ExcEvent(0)

\* What other nodes put on the bus: a data frame, an error frame.
ArriveFrames ==
    { PyMessage(291, <<222, 173>>, 2, FALSE, 0),
      PyMessage(536870916, <<0, 0, 0, 0, 0, 0, 0, 0>>, 8, TRUE, 0) }

\* What callers pass to send().
SendInputs ==
    { <<291, <<222, 173, 190, 239>> >>,
      <<IntMax, << >> >> }

\* A payload of each length a frame has room for, with bytes that are 0.
Payloads ==
    { << >>, <<0>>, <<222, 173>>, <<1, 0, 0>>, <<222, 173, 190, 239>>,
      <<1, 2, 3, 4, 5>>, <<0, 0, 0, 0, 0, 0>>, <<1, 2, 3, 4, 5, 6, 255>>,
      <<222, 173, 190, 239, 0, 1, 2, 255>> }

\* What callers pass to send() where the frame is read back: identifiers of
\* 11 bits, of 29 bits and wider (send takes any u32), with each payload.
RoundTripInputs ==
    { <<id, data>> : id \in {0, 291, MaxBaseId, MaxId, MaxId + 1, IntMax},
                      data \in Payloads }

NewCall(kind, importOk, busOk, notifierOk) ==
    [kind |-> kind, importOk |-> importOk, busOk |-> busOk,
     notifierOk |-> notifierOk]

\* The messages formatted: fields absent and present, one- and two-digit
\* values, both kinds of frame.
DisplayInputs ==
    { PyCanMessage(id, data, dlc, err, ts) :
        id \in {0, 291, 2047, IntMax},
        data \in {None, Some(<< >>), Some(<<1, 2>>), Some(<<222, 173>>)},
        dlc \in {None, Some(2), Some(10), Some(U8Max)},
        err \in BOOLEAN,
        ts \in {None, Some(0), Some(3), Some(-3)} }

NoMessage == PyCanMessage(0, None, None, FALSE, None)

IfaceInit ==
    /\ newCall = NewCall(NoBusType, FALSE, FALSE, FALSE)
    /\ newResult = "NotCalled"
    /\ bustype = NoBusType
    /\ busKwargs = NoKwargs
    /\ pyCalls = << >>
    /\ alive = TRUE
    /\ dropped = FALSE
    /\ rxq = << >>
    /\ clock = 0
    /\ arrivals = 0
    /\ txlog = << >>
    /\ listeners = << >>
    /\ onErrorExits = [l \in Listeners |-> FALSE]
    /\ regCalls = 0
    /\ regPc = "idle"
    /\ regResult = [l \in Listeners |-> "NotCalled"]
    /\ regAt = [l \in Listeners |-> 0]
    /\ regFrom = [l \in Listeners |-> 0]
    /\ nPc = "none"
    /\ running = {}
    /\ nCur = NoEvent
    /\ nIdx = 0
    /\ pulled = << >>
    /\ nDone = 0
    /\ stolen = FALSE
    /\ rxLog = [l \in Listeners |-> << >>]
    /\ errLog = [l \in Listeners |-> << >>]
    /\ recvPc = "idle"
    /\ recvCalls = 0
    /\ recvResult = None
    /\ recvEcho = 0
    /\ sendPc = [t \in Senders |-> "idle"]
    /\ sendArgs = [t \in Senders |-> <<0, << >> >>]
    /\ sendMsg = [t \in Senders |-> SendMessage(0, << >>)]

Init == IfaceInit /\ dispMsg = NoMessage /\ dispOut = None

\* A message is built by its owner and formatted on its own.
InitDisplay == IfaceInit /\ dispMsg \in DisplayInputs /\ dispOut = None

(* --------------------------- PyCanInterface::new ------------------------ *)

\* A new() that does not look at the result of can.Bus.
NewOutcomeBusUnchecked(kind, importOk, busOk, notifierOk) ==
    IF ~importOk THEN
        [result |-> "PythonCanImportFailed", bustype |-> NoBusType,
         kwargs |-> NoKwargs, calls |-> <<"import">>]
    ELSE IF ~notifierOk THEN
        [result |-> "FailedToCreateNotifier", bustype |-> NoBusType,
         kwargs |-> BusKwargs(kind), calls |-> <<"import", "Bus", "Notifier">>]
    ELSE
        [result |-> "Ok", bustype |-> kind,
         kwargs |-> BusKwargs(kind), calls |-> <<"import", "Bus", "Notifier">>]

\* A new() that stores a Socketcan bustype named after the channel, whatever
\* the variant it was given.
NewOutcomeChannelOnly(kind, importOk, busOk, notifierOk) ==
    IF ~importOk THEN
        [result |-> "PythonCanImportFailed", bustype |-> NoBusType,
         kwargs |-> NoKwargs, calls |-> <<"import">>]
    ELSE IF ~busOk THEN
        [result |-> "FailedToCreateInterface", bustype |-> NoBusType,
         kwargs |-> BusKwargs(kind), calls |-> <<"import", "Bus">>]
    ELSE IF ~notifierOk THEN
        [result |-> "FailedToCreateNotifier", bustype |-> NoBusType,
         kwargs |-> BusKwargs(kind), calls |-> <<"import", "Bus", "Notifier">>]
    ELSE
        [result |-> "Ok", bustype |-> Socketcan(BusKwargs(kind).channel),
         kwargs |-> BusKwargs(kind), calls |-> <<"import", "Bus", "Notifier">>]

\* A new() that tries can.Bus a second time when the first attempt fails.
NewOutcomeBusRetried(kind, importOk, busOk, notifierOk) ==
    IF ~importOk THEN
        [result |-> "PythonCanImportFailed", bustype |-> NoBusType,
         kwargs |-> NoKwargs, calls |-> <<"import">>]
    ELSE IF ~busOk THEN
        [result |-> "FailedToCreateInterface", bustype |-> NoBusType,
         kwargs |-> BusKwargs(kind), calls |-> <<"import", "Bus", "Bus">>]
    ELSE IF ~notifierOk THEN
        [result |-> "FailedToCreateNotifier", bustype |-> NoBusType,
         kwargs |-> BusKwargs(kind), calls |-> <<"import", "Bus", "Notifier">>]
    ELSE
        [result |-> "Ok", bustype |-> kind,
         kwargs |-> BusKwargs(kind), calls |-> <<"import", "Bus", "Notifier">>]

\* new(kind), given whether python-can lets each step succeed: import can,
\* can.Bus(**kwargs), can.Notifier(bus=iface, listeners=()).  Each step runs
\* only when the steps before it succeeded (the ? operator).
NewOutcome(kind, importOk, busOk, notifierOk) ==
    IF ~importOk THEN
        [result |-> "PythonCanImportFailed", bustype |-> NoBusType,
         kwargs |-> NoKwargs, calls |-> <<"import">>]
    ELSE IF ~busOk THEN
        [result |-> "FailedToCreateInterface", bustype |-> NoBusType,
         kwargs |-> BusKwargs(kind), calls |-> <<"import", "Bus">>]
    ELSE IF ~notifierOk THEN
        [result |-> "FailedToCreateNotifier", bustype |-> NoBusType,
         kwargs |-> BusKwargs(kind), calls |-> <<"import", "Bus", "Notifier">>]
    ELSE
        [result |-> "Ok", bustype |-> kind,
         kwargs |-> BusKwargs(kind), calls |-> <<"import", "Bus", "Notifier">>]

\* The state of the notifier's thread once can.Notifier(...) returned: the
\* constructor starts it, polling the bus.
NotifierStart(ok) == IF ok THEN "poll" ELSE "none"

NewOf(kinds) ==
    /\ newResult = "NotCalled"
    /\ \E kind \in kinds, importOk, busOk, notifierOk \in BOOLEAN :
         LET r == NewOutcome(kind, importOk, busOk, notifierOk) IN
         /\ newCall' = NewCall(kind, importOk, busOk, notifierOk)
         /\ newResult' = r.result
         /\ bustype' = r.bustype
         /\ busKwargs' = r.kwargs
         /\ pyCalls' = r.calls
         /\ nPc' = NotifierStart(r.result = "Ok")
    /\ UNCHANGED <<dispVars, alive, dropped, busVars, regVars, running, nCur,
                   nIdx, pulled, nDone, stolen, logVars, recvVars, sendVars>>

\* new(), called by a program that goes on to use the interface.
New == NewOf(OpenedKinds)

\* new(), called with any variant.
NewAny == NewOf(Kinds)

Constructed == newResult = "Ok" /\ alive

\* The caller still has the PyCanInterface to call methods on.
Owned == Constructed /\ ~dropped

\* Python::with_gil: recv, send and register_rx_callback run their Python
\* calls holding the interpreter lock, which the dispatch thread holds
\* while it is inside a callback.
GilFree == running = {}

(* ----------------------------- transport ------------------------------- *)

\* Another node's frame, or a failure, reaches the opened bus.
Arrive ==
    /\ Constructed
    /\ \E ev \in {MsgEvent([m EXCEPT !.timestamp = clock + 1], clock + 1, 0) :
                    m \in ArriveFrames} \cup {ExcEvent(clock + 1)} :
         rxq' = Append(rxq, ev)
    /\ clock' = clock + 1
    /\ arrivals' = arrivals + 1
    /\ UNCHANGED <<dispVars, ifaceVars, alive, txlog, regVars, notifierVars,
                   logVars, recvVars, sendVars>>

\* The frame the transport puts on the wire for a message: an identifier of
\* 29 bits (what is above them is not carried), a length code of at most 8
\* and 8 bytes of data, those after the payload being 0.
Frame(m) ==
    [can_id |-> m.arbitration_id % (MaxId + 1),
     can_dlc |-> IF m.dlc > MaxData THEN MaxData ELSE m.dlc,
     data |-> [i \in 1..MaxData |-> IF i <= Len(m.data) THEN m.data[i] ELSE 0],
     err |-> m.is_error_frame]

\* The message the transport makes of a frame it read at time ts: the
\* identifier, the first can_dlc bytes, the length code.
FrameMessage(f, ts) ==
    PyMessage(f.can_id, SubSeq(f.data, 1, f.can_dlc), f.can_dlc, f.err, ts)

\* A transport that loops a transmitted frame back: the message goes on the
\* wire as a frame and is read back from it, stamped with the time it was
\* transmitted at.
Loopback(m, ts) == FrameMessage(Frame(m), ts)

(* ------------------------ register_rx_callback ------------------------- *)

\* register_rx_callback(on_rx, on_error): build the two shims and the
\* listener object, then notifier.add_listener(listener).  The caller's
\* on_error either returns or ends the process (examples/basic_dump.rs).
\* add_listener either succeeds or raises (FailedToAddListener).
\* A register_rx_callback that sets up a notifier of its own for the
\* listener.
RegisterCallsOwnNotifier(calls) == calls \o <<"Notifier", "add_listener">>

\* The python-can calls of register_rx_callback: notifier.add_listener, on
\* the notifier new() stored in self.
RegisterCalls(calls) == Append(calls, "add_listener")

\* A register_rx_callback that ignores what add_listener answered.
RegisterResultSwallowed(addOk) == "Ok"

\* An add_listener that attaches the listener and then raises.
AddListenerRaisesAttached(ls, l) == Append(ls, l)

\* notifier.add_listener(listener) raises: a registration that fails
\* registers nothing, the notifier's list is as it was.
AddListenerRaises(ls, l) == ls

\* What register_rx_callback returns: add_listener's exception mapped to
\* FailedToAddListener and returned by ?, or Ok(()).
RegisterResult(addOk) == IF addOk THEN "Ok" ELSE "FailedToAddListener"

\* The state of the call once add_listener has answered.
RegisterPc(addOk) == IF addOk THEN "added" ELSE "failed"

\* register_rx_callback up to the answer of notifier.add_listener: the
\* shims, the listener class and its instance are made (any failure there
\* panics: expect, unwrap), then add_listener appends the listener or
\* raises; after a raise the call does nothing more to the notifier (?).
\* The call runs Python code, during which the interpreter lock
\* can pass to the dispatch thread, so it has not returned yet.
RegisterRxCallback ==
    /\ Owned
    /\ GilFree
    /\ regPc = "idle"
    /\ regCalls < MaxListeners
    /\ LET l == regCalls + 1 IN
       \E exits, pyOk, addOk \in BOOLEAN :
         /\ regCalls' = l
         /\ onErrorExits' = [onErrorExits EXCEPT ![l] = exits]
         /\ rxLog' = [rxLog EXCEPT ![l] = NewClosure(rxLog[l])]
         /\ errLog' = [errLog EXCEPT ![l] = NewClosure(errLog[l])]
         /\ IF pyOk
              THEN /\ pyCalls' = RegisterCalls(pyCalls)
                   /\ listeners' =
                        IF addOk THEN AddListener(listeners, l)
                                 ELSE AddListenerRaises(listeners, l)
                   /\ regPc' = RegisterPc(addOk)
                   /\ regFrom' = [regFrom EXCEPT ![l] = Len(pulled)]
                   /\ UNCHANGED regResult
              ELSE /\ regPc' = "panicked"
                   /\ regResult' = [regResult EXCEPT ![l] = "Panicked"]
                   /\ UNCHANGED <<pyCalls, listeners, regFrom>>
    /\ UNCHANGED <<dispVars, newCall, newResult, bustype, busKwargs, dropped,
                   alive, busVars, notifierVars, regAt, recvVars, sendVars>>

\* add_listener has answered and the caller's thread has the interpreter
\* lock again: register_rx_callback returns.
RegisterReturn ==
    /\ Constructed
    /\ GilFree
    /\ regPc \in {"added", "failed"}
    /\ regPc' = "idle"
    /\ regResult' =
         [regResult EXCEPT ![regCalls] = RegisterResult(regPc = "added")]
    /\ regAt' = [regAt EXCEPT ![regCalls] = Len(pulled)]
    /\ UNCHANGED <<dispVars, ifaceVars, alive, busVars, listeners,
                   onErrorExits, regCalls, regFrom, notifierVars, logVars,
                   recvVars, sendVars>>

(* --------------------------- dispatch thread --------------------------- *)

\* The transport reported the event as an error: the read failed, or the
\* frame read is an erroneous one.
Erroneous(ev) == ev.kind = "exc" \/ ev.msg.is_error_frame

\* The next thing the loop does with what it pulled: for a frame it invokes
\* the listeners' rx callbacks, for a transport-level error (erroneous frame,
\* I/O failure) their error callbacks instead.
DispatchOf(ev) == IF Erroneous(ev) THEN "onerror" ELSE "dispatch"

\* The loop reads the next event from the bus.
NotifierPoll ==
    /\ Constructed
    /\ nPc = "poll"
    /\ rxq # << >>
    /\ nCur' = Head(rxq)
    /\ rxq' = Tail(rxq)
    /\ nPc' = DispatchOf(Head(rxq))
    /\ nIdx' = 1
    /\ pulled' = Append(pulled, Head(rxq))
    /\ stolen' = (stolen \/ recvPc = "blocked")
    /\ UNCHANGED <<dispVars, ifaceVars, alive, clock, arrivals, txlog, regVars,
                   running, nDone, logVars, recvVars, sendVars>>

\* The loop calls the next listener with the message: rx_shim runs on the
\* dispatch thread and calls on_rx, which has the thread until it returns.
\* A panic of the shim ends the thread.
NotifierDeliver ==
    /\ Constructed
    /\ nPc = "dispatch"
    /\ nIdx <= Len(listeners)
    /\ LET l == listeners[nIdx] IN
         /\ rxLog' = [rxLog EXCEPT ![l] = RxShim(rxLog[l], <<nCur.msg>>)]
         /\ IF RxShimPanics(<<nCur.msg>>)
              THEN nPc' = "dead" /\ running' = running
              ELSE nPc' = ShimCall("dispatch") /\ running' = running \cup {l}
    /\ nIdx' = nIdx + 1
    /\ UNCHANGED <<dispVars, ifaceVars, alive, busVars, regVars, nCur, pulled,
                   nDone, stolen, errLog, recvVars, sendVars>>

\* The callback returns, and the shim after it: the loop goes on with the
\* next listener.
NotifierReturn ==
    /\ Constructed
    /\ nPc \in {"rxcall", "errcall"}
    /\ \E l \in running : running' = running \ {l}
    /\ nPc' = ShimReturn(nPc)
    /\ UNCHANGED <<dispVars, ifaceVars, alive, busVars, regVars, nCur, nIdx,
                   pulled, nDone, stolen, logVars, recvVars, sendVars>>

\* Every listener was called with the message: back to reading the bus.
NotifierDispatchDone ==
    /\ Constructed
    /\ nPc = "dispatch"
    /\ nIdx > Len(listeners)
    /\ nPc' = "poll"
    /\ nDone' = nDone + 1
    /\ UNCHANGED <<dispVars, ifaceVars, alive, busVars, regVars, running, nCur,
                   nIdx, pulled, stolen, logVars, recvVars, sendVars>>

\* The loop calls the next listener's on_error with the exception:
\* error_shim runs on the dispatch thread.
NotifierOnError ==
    /\ Constructed
    /\ nPc = "onerror"
    /\ nIdx <= Len(listeners)
    /\ LET l == listeners[nIdx] IN
         /\ errLog' = [errLog EXCEPT
                         ![l] = ErrorShim(errLog[l], <<TransportError(nCur.seq)>>)]
         /\ alive' = ~onErrorExits[l]
         /\ running' = running \cup {l}
    /\ nPc' = ShimCall("onerror")
    /\ nIdx' = nIdx + 1
    /\ UNCHANGED <<dispVars, ifaceVars, busVars, regVars, nCur, pulled, nDone,
                   stolen, rxLog, recvVars, sendVars>>

\* Every listener's on_error was called.  With no listener the exception is
\* unhandled and ends the thread; otherwise the thread goes on reading or
\* ends, as the python-can release in use decides.
NotifierErrorDone ==
    /\ Constructed
    /\ nPc = "onerror"
    /\ nIdx > Len(listeners)
    /\ \E goesOn \in BOOLEAN :
         nPc' = IF nIdx > 1 /\ goesOn THEN "poll" ELSE "dead"
    /\ nDone' = nDone + 1
    /\ UNCHANGED <<dispVars, ifaceVars, alive, busVars, regVars, running, nCur,
                   nIdx, pulled, stolen, logVars, recvVars, sendVars>>

(* -------------------------------- recv --------------------------------- *)

\* recv() is called: iface.recv() blocks until the bus has an event.
RecvCall ==
    /\ Owned
    /\ GilFree
    /\ recvPc = "idle"
    /\ recvPc' = "blocked"
    /\ recvCalls' = recvCalls + 1
    /\ UNCHANGED <<dispVars, ifaceVars, alive, busVars, regVars, notifierVars,
                   logVars, recvResult, recvEcho, sendVars>>

\* What recv() does with the event iface.recv() ended with: a message is
\* extracted and returned; an exception, or a message that does not extract,
\* panics (unwrap).
RecvOutcome(ev) ==
    IF ev.kind = "msg" /\ Extractable(ev.msg)
      THEN [pc |-> "idle", result |-> Some(Extract(ev.msg))]
      ELSE [pc |-> "panicked", result |-> None]

\* The blocked iface.recv() reads the next event from the bus.
RecvReturn ==
    /\ Constructed
    /\ GilFree
    /\ recvPc = "blocked"
    /\ rxq # << >>
    /\ LET r == RecvOutcome(Head(rxq)) IN
         /\ recvPc' = r.pc
         /\ recvResult' = r.result
         /\ recvEcho' = IF r.pc = "idle" THEN Head(rxq).echoOf ELSE 0
    /\ rxq' = Tail(rxq)
    /\ UNCHANGED <<dispVars, ifaceVars, alive, clock, arrivals, txlog, regVars,
                   notifierVars, logVars, recvCalls, sendVars>>

(* -------------------------------- send --------------------------------- *)

\* send(id, data), first half: build the keyword arguments and the
\* can.Message.  Another thread may run before the message is transmitted.
SendBuildOf(t, inputs) ==
    /\ Owned
    /\ GilFree
    /\ sendPc[t] = "idle"
    /\ \E in \in inputs :
         /\ sendArgs' = [sendArgs EXCEPT ![t] = in]
         /\ sendMsg' = [sendMsg EXCEPT ![MsgSlot(t)] = SendMessage(in[1], in[2])]
    /\ sendPc' = [sendPc EXCEPT ![t] = "built"]
    /\ UNCHANGED <<dispVars, ifaceVars, alive, busVars, regVars, notifierVars,
                   logVars, recvVars>>

\* send(), called by the threads of a program that transmits.
SendBuild(t) == SendBuildOf(t, SendInputs)

\* send(), called by one thread with each identifier and payload.
SendRoundTrip == SendBuildOf(1, RoundTripInputs)

\* send(id, data), second half: iface.send(msg) writes the frame, or raises
\* and the call panics (unwrap).  A loopback transport also queues the frame
\* for reading.
SendTransmit(t) ==
    /\ Constructed
    /\ GilFree
    /\ sendPc[t] = "built"
    /\ \E ok, echo \in BOOLEAN :
         LET m == sendMsg[MsgSlot(t)] IN
         IF ok
           THEN /\ txlog' = Append(txlog, [msg |-> m, by |-> t])
                /\ sendPc' = [sendPc EXCEPT ![t] = "done"]
                /\ IF echo
                     THEN /\ rxq' = Append(rxq, MsgEvent(Loopback(m, clock + 1),
                                                         clock + 1, t))
                          /\ clock' = clock + 1
                     ELSE UNCHANGED <<rxq, clock>>
           ELSE /\ sendPc' = [sendPc EXCEPT ![t] = "panicked"]
                /\ UNCHANGED <<txlog, rxq, clock>>
    /\ UNCHANGED <<dispVars, ifaceVars, alive, arrivals, regVars, notifierVars,
                   logVars, recvVars, sendArgs, sendMsg>>

(* -------------------------------- drop --------------------------------- *)

\* The PyCanInterface goes out of scope, which no call borrowing it can
\* outlive.  The struct has no Drop impl: its fields release their
\* references to the Python bus, notifier and module, and nothing is called
\* on them; the interpreter lock is not needed, so the dispatch thread may
\* be inside a callback.
Drop ==
    /\ Owned
    /\ regPc \notin {"added", "failed"}
    /\ recvPc # "blocked"
    /\ \A t \in Senders : sendPc[t] # "built"
    /\ dropped' = TRUE
    /\ UNCHANGED <<dispVars, newCall, newResult, bustype, busKwargs, pyCalls,
                   alive, busVars, regVars, notifierVars, logVars, recvVars,
                   sendVars>>

(* --------------------------- specifications ---------------------------- *)

\* The calls made and the events put on the bus so far.
OpsDone ==
    arrivals + regCalls + recvCalls + (IF dropped THEN 1 ELSE 0)
    + Cardinality({t \in Senders : sendPc[t] # "idle"})

\* Room for one more call or event.
MayStart == OpsDone < MaxOps

Notifier ==
    \/ NotifierPoll
    \/ NotifierDeliver
    \/ NotifierReturn
    \/ NotifierDispatchDone
    \/ NotifierOnError
    \/ NotifierErrorDone

Next ==
    \/ New
    \/ MayStart /\ Arrive
    \/ MayStart /\ RegisterRxCallback
    \/ RegisterReturn
    \/ Notifier
    \/ MayStart /\ RecvCall
    \/ RecvReturn
    \/ \E t \in Senders : MayStart /\ SendBuild(t)
    \/ \E t \in Senders : SendTransmit(t)
    \/ MayStart /\ Drop

Spec == Init /\ [][Next]_vars

\* format!("{msg}") / msg.to_string().
Format ==
    /\ dispOut = None
    /\ dispOut' = Some(Display(dispMsg))
    /\ UNCHANGED <<dispMsg, ifaceVars, alive, busVars, regVars, notifierVars,
                   logVars, recvVars, sendVars>>

NextDisplay == Format

SpecDisplay == InitDisplay /\ [][NextDisplay]_vars

\* Room for one more call or event on an interface of any variant.
MayStartAnyKind == OpsDone < MaxOpsAnyKind

\* The same program, opened with each of the variants and used for fewer
\* calls.
NextAnyKind ==
    \/ NewAny
    \/ MayStartAnyKind /\ Arrive
    \/ MayStartAnyKind /\ RegisterRxCallback
    \/ RegisterReturn
    \/ Notifier
    \/ MayStartAnyKind /\ RecvCall
    \/ RecvReturn
    \/ \E t \in Senders : MayStartAnyKind /\ SendBuild(t)
    \/ \E t \in Senders : SendTransmit(t)
    \/ MayStartAnyKind /\ Drop

SpecAnyKind == Init /\ [][NextAnyKind]_vars

\* Room for one more call or event where the frame sent is read back.
MayStartRoundTrip == OpsDone < MaxOpsRoundTrip

\* The same program with one sending thread, given each identifier and
\* payload.
NextRoundTrip ==
    \/ New
    \/ MayStartRoundTrip /\ Arrive
    \/ MayStartRoundTrip /\ RegisterRxCallback
    \/ RegisterReturn
    \/ Notifier
    \/ MayStartRoundTrip /\ RecvCall
    \/ RecvReturn
    \/ MayStartRoundTrip /\ SendRoundTrip
    \/ SendTransmit(1)
    \/ MayStartRoundTrip /\ Drop

SpecRoundTrip == Init /\ [][NextRoundTrip]_vars

\* The threads are scheduled: a blocked recv() whose bus has an event ends,
\* the dispatch thread takes its next step, a built message is transmitted.
FairSpec ==
    /\ Spec
    /\ WF_vars(RecvReturn)
    /\ WF_vars(RegisterReturn)
    /\ WF_vars(Notifier)
    /\ WF_vars(\E t \in Senders : SendTransmit(t))

(* ------------------------------ claims --------------------------------- *)

\* How many times on_rx was called with the message stamped ts.
RxCount(l, ts) ==
    Cardinality({k \in 1..Len(rxLog[l]) : rxLog[l][k].timestamp = Some(ts)})

\* How many times on_error was called with the failure of event n.
ErrCount(l, n) ==
    Cardinality({k \in 1..Len(errLog[l]) : errLog[l][k].value.seq = n})

\* Listener l's register_rx_callback returned Ok before the loop pulled its
\* i-th event.
RegisteredBefore(l, i) == regResult[l] = "Ok" /\ regAt[l] < i

\* The loop has finished dispatching the i-th event it pulled.
Dispatched(i) == i <= nDone

\* C1: once two register_rx_callback calls have returned Ok, every frame the
\* dispatch loop pulls afterwards is delivered exactly once to both rx
\* callbacks (transport errors apart).
C1_BothCallbacksGetEveryFrame ==
    \A i \in 1..Len(pulled) :
      \A l1, l2 \in Listeners :
        ( /\ ~Erroneous(pulled[i])
          /\ Dispatched(i)
          /\ l1 # l2
          /\ RegisteredBefore(l1, i)
          /\ RegisteredBefore(l2, i) )
        => RxCount(l1, pulled[i].seq) = 1 /\ RxCount(l2, pulled[i].seq) = 1

\* A frame was pulled and dispatched after two registrations returned Ok.
C1_Witness ==
    \E i \in 1..Len(pulled) :
      /\ ~Erroneous(pulled[i])
      /\ Dispatched(i)
      /\ RegisteredBefore(1, i)
      /\ RegisteredBefore(2, i)
      /\ listeners = <<1, 2>>

\* The position in the loop's pull order of the event stamped ts (0: the
\* loop never pulled it).
PullIndex(ts) ==
    IF \E k \in 1..Len(pulled) : pulled[k].seq = ts
      THEN CHOOSE k \in 1..Len(pulled) : pulled[k].seq = ts
      ELSE 0

\* C2: each listener's on_rx is called with the frames in the order the
\* dispatch loop received them from the transport.
C2_RxInReceiptOrder ==
    \A l \in Listeners :
      \A a, b \in 1..Len(rxLog[l]) :
        a < b =>
          /\ PullIndex(rxLog[l][a].timestamp[1]) > 0
          /\ PullIndex(rxLog[l][a].timestamp[1])
               < PullIndex(rxLog[l][b].timestamp[1])

\* A listener's on_rx has been called with two frames.
C2_Witness ==
    \E l \in Listeners :
      /\ Len(rxLog[l]) = 2
      /\ rxLog[l][1].timestamp # rxLog[l][2].timestamp

\* The loop pulled its i-th event with listener l registered and has
\* finished dispatching it.
DispatchedTo(l, i) ==
    i \in 1..Len(pulled) /\ Dispatched(i) /\ RegisteredBefore(l, i)

FramesOf(t) == {i \in 1..Len(txlog) : txlog[i].by = t}

\* C5: under any interleaving of send calls from several threads, every frame
\* written to the transport carries the id, data and dlc of the call that
\* wrote it, and a call writes exactly one frame (none when the transport
\* refuses it and the call panics).
C5_SendFramesNotMixed ==
    /\ \A i \in 1..Len(txlog) :
         LET f == txlog[i].msg
             a == sendArgs[txlog[i].by]
         IN  /\ f.arbitration_id = a[1]
             /\ f.data = a[2]
             /\ f.dlc = Len(a[2])
    /\ \A t \in Senders :
         Cardinality(FramesOf(t)) = IF sendPc[t] = "done" THEN 1 ELSE 0

\* Two threads with different arguments have both transmitted, the second
\* caller's frame first.
C5_Witness ==
    /\ Len(txlog) = 2
    /\ txlog[1].by = 2
    /\ txlog[2].by = 1
    /\ sendArgs[1] # sendArgs[2]

\* What recv() returned is the echo of a send() call.
EchoReceived == recvResult # None /\ recvEcho # 0

\* The message recv() returned has the id, the payload and the payload
\* length of the send() call it echoes.
SameAsSent ==
    LET m == recvResult[1]
        a == sendArgs[recvEcho]
    IN  /\ m.arbitration_id = a[1]
        /\ m.data = Some(a[2])
        /\ m.dlc = Some(Len(a[2]))
        /\ ~m.is_error_frame

\* C6 as stated: for any arbitration id and any payload of 0..8 bytes, a
\* frame sent by send(id, data) and read back by recv() over a loopback
\* transport has arbitration_id = id, data = the payload and dlc = the
\* payload length.
C6_RoundTrip == EchoReceived => SameAsSent

\* C6, amended: the same for any arbitration id of at most 29 bits.
C6_RoundTripOfCanId ==
    (EchoReceived /\ sendArgs[recvEcho][1] <= MaxId) => SameAsSent

\* recv() returned the echo of a send() with the largest 29-bit id and a
\* payload of eight bytes.
C6_Witness ==
    /\ EchoReceived
    /\ sendArgs[recvEcho][1] = MaxId
    /\ Len(sendArgs[recvEcho][2]) = MaxData
    /\ recvPc = "idle"

\* C7: when python-can accepts every step of new(kind), new returns Ok and
\* the handle's bustype is kind, variant and fields; recv, send and
\* register_rx_callback leave it so.
C7_BustypeIsTheInput ==
    /\ (newResult # "NotCalled"
        /\ newCall.importOk /\ newCall.busOk /\ newCall.notifierOk)
       => newResult = "Ok"
    /\ newResult = "Ok" => (bustype = newCall.kind /\ bustype \in Kinds)

\* A Socketcand interface on which register_rx_callback and send have been
\* called.
C7_Witness ==
    /\ newResult = "Ok"
    /\ bustype = Socketcand("localhost", "can0", 29536)
    /\ regCalls > 0
    /\ \E t \in Senders : sendPc[t] = "done"

\* C8: new returns PythonCanImportFailed when the import fails and
\* FailedToCreateInterface when the backend rejects the parameters, and in
\* neither case is there an interface: no bustype, no notifier thread, no
\* call of recv, send or register_rx_callback.
C8_NewFailsWithoutInterface ==
    /\ (newResult # "NotCalled" /\ ~newCall.importOk)
       => newResult = "PythonCanImportFailed"
    /\ (newResult # "NotCalled" /\ newCall.importOk /\ ~newCall.busOk)
       => newResult = "FailedToCreateInterface"
    /\ newResult \in {"PythonCanImportFailed", "FailedToCreateInterface"}
       => /\ bustype = NoBusType
          /\ nPc = "none"
          /\ OpsDone = 0

\* new() failed on a backend that rejected a serial port.
C8_Witness ==
    /\ newResult = "FailedToCreateInterface"
    /\ newCall.kind.variant = "Slcan"
    /\ ~newCall.busOk

\* C9: whenever a frame is on the transport while a recv() call is blocked,
\* that call eventually returns (the process not having exited).
C9_RecvReturnsWhenFrameArrives ==
    [](( /\ recvPc = "blocked"
         /\ rxq # << >>
         /\ Head(rxq).kind = "msg" )
       => <>(recvPc # "blocked" \/ ~alive))

\* C10: recv() and the notifier are alternative consumption modes: never is
\* a recv() call blocked on the bus while the dispatch thread polls the same
\* bus, and the dispatch thread never takes a frame while a recv() call is
\* pending.
C10_RecvAndNotifierAlternative ==
    /\ ~(recvPc = "blocked" /\ nPc = "poll")
    /\ ~stolen

\* C11: on_rx and on_error are called only by the dispatch thread: a step
\* that adds a call to a callback's log is a step of the dispatch thread
\* calling a listener, never register_rx_callback, recv or send.
C11_CallbacksOnlyOnDispatchThread ==
    [][ (rxLog' # rxLog \/ errLog' # errLog)
        => (NotifierDeliver \/ NotifierOnError) ]_vars

\* Both a callback-mode and a caller-thread operation have happened: a
\* listener registered on the caller's thread was called, and send was
\* called on the caller's side.
C11_Witness ==
    /\ \E l \in Listeners : regResult[l] = "Ok" /\ Len(rxLog[l]) = 1
    /\ \E t \in Senders : sendPc[t] = "done"

\* What the claims expect where a timestamp is shown.
TimestampText(m) ==
    IF m.timestamp = None THEN "None" ELSE DebugF64(m.timestamp[1])

\* C12: a message with is_error_frame set is formatted as
\* "PyCanMessage: @<timestamp> ERROR FRAME", and any other error frame with
\* the same timestamp is formatted the same, whatever its arbitration_id,
\* data and dlc.
C12_ErrorFrameDisplay ==
    (dispOut # None /\ dispMsg.is_error_frame) =>
        /\ dispOut[1] = "PyCanMessage: @" \o TimestampText(dispMsg)
                            \o " ERROR FRAME"
        /\ \A m \in DisplayInputs :
            (m.is_error_frame /\ m.timestamp = dispMsg.timestamp)
                => Display(m) = dispOut[1]

\* An error frame with a payload has been formatted.
C12_Witness ==
    /\ dispOut = Some("PyCanMessage: @1.5 ERROR FRAME")
    /\ dispMsg.is_error_frame
    /\ dispMsg.arbitration_id = 2047
    /\ dispMsg.dlc = Some(2)
    /\ dispMsg.data = Some(<<1, 2>>)

\* A number as it is usually written, in decimal.
Decimal(n) == ToString(n)

\* C13: a message with is_error_frame clear is formatted as
\* "PyCanMessage: @<timestamp> | id=0x<id> | dlc=<dlc> | data=<data>": the id
\* in at least three upper-case hexadecimal digits, the dlc as the number
\* itself (2 for Some(2), 10 for Some(10)), the data as the list of its
\* bytes in hexadecimal, and an absent timestamp, dlc or data as None.
C13_DataFrameDisplay ==
    (dispOut # None /\ ~dispMsg.is_error_frame) =>
        dispOut[1] =
            "PyCanMessage: @" \o TimestampText(dispMsg)
                \o " | id=0x" \o UpperHex03(dispMsg.arbitration_id)
                \o " | dlc=" \o (IF dispMsg.dlc = None THEN "None"
                                  ELSE Decimal(dispMsg.dlc[1]))
                \o " | data=" \o (IF dispMsg.data = None THEN "None"
                                   ELSE DebugVec(dispMsg.data[1]))

\* How many times python-can was asked for call c.
CallCount(c) == Cardinality({i \in 1..Len(pyCalls) : pyCalls[i] = c})

OkRegistrations == {l \in Listeners : regResult[l] = "Ok"}

\* C14: an interface new() returned has one notifier, created by new() with
\* no listener; register_rx_callback creates no other and adds at most one
\* listener to it, so that with no call in progress, after n successful
\* registrations, the one notifier has exactly those n listeners.
C14_OneNotifierManyListeners ==
    newResult = "Ok" =>
        /\ CallCount("Notifier") = 1
        /\ CallCount("add_listener") <= regCalls
        /\ regPc = "idle" =>
              /\ CallCount("add_listener") = regCalls
              /\ Len(listeners) = Cardinality(OkRegistrations)
        /\ regPc = "added" =>
              Len(listeners) = Cardinality(OkRegistrations) + 1
        /\ \A l \in OkRegistrations :
            Cardinality({i \in 1..Len(listeners) : listeners[i] = l}) = 1
        /\ regCalls = 0 => listeners = << >>

\* Two registrations succeeded on the one notifier.
C14_Witness ==
    /\ newResult = "Ok"
    /\ regPc = "idle"
    /\ Cardinality(OkRegistrations) = 2
    /\ Len(listeners) = 2
    /\ CallCount("Notifier") = 1

\* C15: dispatch is serial.  At most one callback is executing at any time;
\* a frame is delivered to a listener only when every frame pulled before it
\* has been dispatched to the end; and while a callback has not returned, no
\* callback is called and no frame is pulled.
C15_SerialDispatch ==
    /\ [](Cardinality(running) <= 1)
    /\ [](\A l \in Listeners : \A k \in 1..Len(rxLog[l]) :
            PullIndex(rxLog[l][k].timestamp[1]) <= nDone + 1)
    /\ [][running # {} =>
            /\ rxLog' = rxLog
            /\ errLog' = errLog
            /\ pulled' = pulled]_vars

\* A listener's on_rx has been called with the first frame and has not
\* returned, and a second frame waits on the bus.
C15_Witness ==
    /\ running = {1}
    /\ nPc = "rxcall"
    /\ Len(rxLog[1]) = 1
    /\ Len(pulled) = 1
    /\ rxq # << >>

\* The positions, in the loop's pull order, of the events listener l's
\* callbacks were called with.
CalledWith(l) ==
    {PullIndex(rxLog[l][k].timestamp[1]) : k \in 1..Len(rxLog[l])}
    \cup {PullIndex(errLog[l][k].value.seq) : k \in 1..Len(errLog[l])}

\* C16: a listener's callbacks are called only with events the loop pulled
\* after register_rx_callback was called for it; an event pulled before, and
\* so any event pulled while there was no listener, reaches no callback,
\* neither then nor later.
C16_OnlyFramesPulledAfterRegistration ==
    \A l \in Listeners : \A i \in CalledWith(l) : i > regFrom[l]

\* C17: once the PyCanInterface has been dropped, the dispatch loop pulls
\* no frame from the transport any more and calls no on_rx or on_error.
C17_LoopStopsAtDrop ==
    [][dropped => /\ pulled' = pulled
                  /\ rxLog' = rxLog
                  /\ errLog' = errLog]_vars

IsNewCall(c) == c \in {"import", "Bus", "Notifier"}

\* The python-can calls new() made, in order.
NewCalls == SelectSeq(pyCalls, IsNewCall)

NewSteps == <<"import", "Bus", "Notifier">>

\* C18: new() calls import, can.Bus, can.Notifier in this order, each at
\* most once; it stops at the first step that fails, returns that step's
\* error kind and runs no later step.
C18_NewStepsInOrderNoRetry ==
    newResult # "NotCalled" =>
        /\ \E n \in 1..3 : NewCalls = SubSeq(NewSteps, 1, n)
        /\ ~newCall.importOk =>
              newResult = "PythonCanImportFailed" /\ Len(NewCalls) = 1
        /\ (newCall.importOk /\ ~newCall.busOk) =>
              newResult = "FailedToCreateInterface" /\ Len(NewCalls) = 2
        /\ (newCall.importOk /\ newCall.busOk /\ ~newCall.notifierOk) =>
              newResult = "FailedToCreateNotifier" /\ Len(NewCalls) = 3
        /\ (newCall.importOk /\ newCall.busOk /\ newCall.notifierOk) =>
              newResult = "Ok" /\ Len(NewCalls) = 3

\* can.Bus failed where can.Notifier would have succeeded: new() returned
\* after two calls.
C18_Witness ==
    /\ newCall.importOk /\ ~newCall.busOk /\ newCall.notifierOk
    /\ newResult = "FailedToCreateInterface"
    /\ pyCalls = <<"import", "Bus">>

Attached == {listeners[i] : i \in 1..Len(listeners)}

FailedRegistrations ==
    {l \in Listeners : regResult[l] = "FailedToAddListener"}

\* The listener of the register_rx_callback call in progress, if
\* add_listener has attached it.
BeingAdded == IF regPc = "added" THEN {regCalls} ELSE {}

\* The steps of a register_rx_callback call in which add_listener fails.
FailingCallStep ==
    \/ regPc = "idle" /\ regPc' = "failed"
    \/ regPc = "failed" /\ regPc' = "idle"

=============================================================================
